---- MODULE Spec2Model ----
(***************************************************************************)
(* Element (src/geometry/element/index.ts): one data-bound shape, its      *)
(* reconciliation against a freshly built scratch shape, its interaction   *)
(* states and its life cycle, together with getStyle                       *)
(* (src/geometry/shape/util/get-style.ts).                                 *)
(*                                                                         *)
(* Attribute sets are functions over AttrNames; the value Undef stands for *)
(* "key absent / undefined".  A shape is a nested record: a leaf carries   *)
(* attrs and the queue of tweens running on it, a group its children.      *)
(***************************************************************************)
EXTENDS Integers, Sequences, FiniteSets, TLC

\* ------------------------------------------------------------------ bounds
\* most tweens that may be queued on one leaf
MaxTweens == 1
\* the scratch container counts the shapes it holds up to this number
MaxScratch == 1
\* most calls made on an Element after its destroy()
MaxAfterDestroy == 1

\* ------------------------------------------------------------- attributes
AttrNames == {"fill", "stroke", "lineWidth"}
Undef == "undef"
\* marks, in an attribute delta, a key the delta does not mention
Keep == "keep"
NoAttrs == [k \in AttrNames |-> Undef]

\* JS truthiness of a string-valued field
Truthy(v) == v # Undef /\ v # ""
\* isNil of @antv/util
isNil(v) == v = Undef

\* {...a, ...b}: b's own keys win
Spread(a, b) == [k \in AttrNames |-> IF b[k] # Undef THEN b[k] ELSE a[k]]

\* ---------------------------------------------------------------- getStyle
getStyle(cfg, isStroke, isFill, sizeName) ==
  LET attrs0 == Spread(cfg.defaultStyle, cfg.style)
      attrs1 == IF Truthy(cfg.color) /\ isStroke /\ ~Truthy(cfg.style["stroke"])
                THEN [attrs0 EXCEPT !["stroke"] = cfg.color] ELSE attrs0
      attrs2 == IF Truthy(cfg.color) /\ isFill /\ ~Truthy(cfg.style["fill"])
                THEN [attrs1 EXCEPT !["fill"] = cfg.color] ELSE attrs1
  IN  IF sizeName # "" /\ isNil(cfg.style[sizeName]) /\ ~isNil(cfg.size)
      THEN [attrs2 EXCEPT ![sizeName] = cfg.size] ELSE attrs2

\* most label shapes an Element carries
MaxLabels == 2

\* ------------------------------------------------------------------ models
Sty(f, s, w) == [fill |-> f, stroke |-> s, lineWidth |-> w]

\* the draw instructions callers pass to draw/update
ModelA == [shape |-> [isArray |-> TRUE, list |-> <<"box", "point">>, name |-> Undef],
           style |-> Sty("red", Undef, Undef), defaultStyle |-> Sty(Undef, Undef, "1"),
           color |-> "blue", size |-> "4"]
ModelB == [shape |-> [isArray |-> FALSE, list |-> <<>>, name |-> "box"],
           style |-> Sty(Undef, Undef, Undef), defaultStyle |-> Sty(Undef, Undef, "1"),
           color |-> Undef, size |-> Undef]
ModelC == [shape |-> [isArray |-> FALSE, list |-> <<>>, name |-> "point"],
           style |-> Sty(Undef, "red", Undef), defaultStyle |-> NoAttrs,
           color |-> "blue", size |-> "4"]
ModelE == [shape |-> [isArray |-> FALSE, list |-> <<>>, name |-> "blank"],
           style |-> NoAttrs, defaultStyle |-> NoAttrs,
           color |-> "blue", size |-> Undef]
Models == {ModelA, ModelB, ModelC, ModelE}
\* the model field of an Element that was never drawn
NoModel == [null |-> TRUE]
Null == [null |-> TRUE]

getShapeType(model) ==
  IF model = NoModel THEN Undef
  ELSE IF model.shape.isArray THEN model.shape.list[1] ELSE model.shape.name

\* ----------------------------------------------------------- Shape Factory
\* A leaf and a group as the factory builds them: origin and element are the
\* tags 'origin' and 'element' of the node, not set yet.
NewLeaf(name, attrs) ==
  [isGroup |-> FALSE, name |-> name, attrs |-> attrs, anims |-> <<>>,
   origin |-> Null, element |-> Undef]
NewGroup(name, children) ==
  [isGroup |-> TRUE, name |-> name, children |-> children,
   origin |-> Null, element |-> Undef]

\* shapeFactory.drawShape(shapeType, model, container): a "point" is one leaf,
\* a "box" a group holding a group of two leaves and one more leaf, "blank" a
\* custom shape that renders nothing.
shapeFactory_drawShape(shapeType, model) ==
  IF model = NoModel THEN Null
  ELSE CASE shapeType = "point" -> NewLeaf("", getStyle(model, FALSE, TRUE, "lineWidth"))
         [] shapeType = "box" ->
              NewGroup("", <<NewGroup("", <<NewLeaf("", getStyle(model, TRUE, FALSE, "lineWidth")),
                                           NewLeaf("", getStyle(model, FALSE, TRUE, ""))>>),
                             NewLeaf("", getStyle(model, TRUE, TRUE, "lineWidth"))>>)
         [] OTHER -> Null


\* --------------------------------------------------------- state styles
StateNames == {"active", "selected", "inactive"}
\* shapeFactory.geometryType, the name draw gives an unnamed root shape
GeometryType == "interval"
\* lookup keys of leaves: a declared name, or the index as a property key
IndexKey(n) == CASE n = 0 -> "0" [] n = 1 -> "1" [] n = 2 -> "2" [] OTHER -> "3"
StyleKeys == {"0", "1", "2", "3", GeometryType}
NoKeyed == [k \in StyleKeys |-> Null]

\* theme[shapeType][stateName]: `style` is a function of the Element
\* (kind "function"), or an object whose plain attributes are `flat` and
\* whose per-shape entries are `keyed`; kind "none" when nothing is declared.
Theme(shapeType, stateName) ==
  CASE stateName = "active" ->
         [animate |-> "undefined",
          style |-> [kind |-> "object", flat |-> Sty("gold", Undef, "2"), keyed |-> NoKeyed]]
    [] stateName = "selected" ->
         [animate |-> "undefined",
          style |-> [kind |-> "object", flat |-> Sty("navy", Undef, Undef), keyed |-> NoKeyed]]
    [] stateName = "inactive" /\ shapeType = "box" ->
         [animate |-> "undefined",
          style |-> [kind |-> "object", flat |-> NoAttrs,
                     keyed |-> [NoKeyed EXCEPT !["0"] = Sty("grey", Undef, Undef),
                                               !["1"] = Sty(Undef, "grey", Undef)]]]
    [] stateName = "inactive" ->
         [animate |-> "undefined",
          style |-> [kind |-> "function", flat |-> NoAttrs, keyed |-> NoKeyed]]
    [] OTHER -> [animate |-> "undefined",
                 style |-> [kind |-> "none", flat |-> NoAttrs, keyed |-> NoKeyed]]

\* geometry.stateOption, what the user declared through geometry.state()
StateOption(stateName) ==
  CASE stateName = "selected" ->
         [animate |-> "undefined",
          style |-> [kind |-> "object", flat |-> Sty(Undef, "black", Undef), keyed |-> NoKeyed]]
    [] stateName = "inactive" ->
         [animate |-> "null",
          style |-> [kind |-> "none", flat |-> NoAttrs, keyed |-> NoKeyed]]
    [] OTHER ->
         [animate |-> "undefined",
          style |-> [kind |-> "none", flat |-> NoAttrs, keyed |-> NoKeyed]]

\* the style function the theme declares: style(element)
StyleFn(model) ==
  Sty(Undef, IF model # NoModel /\ Truthy(model.color) THEN model.color ELSE "grey", Undef)

\* deepMix({}, a, b) on state configurations
deepMix(a, b) ==
  [animate |-> IF b.animate # "undefined" THEN b.animate ELSE a.animate,
   style |-> IF b.style.kind = "none" THEN a.style
             ELSE IF a.style.kind # "object" \/ b.style.kind # "object" THEN b.style
             ELSE [kind |-> "object", flat |-> Spread(a.style.flat, b.style.flat),
                   keyed |-> [k \in StyleKeys |->
                                IF b.style.keyed[k] = Null THEN a.style.keyed[k]
                                ELSE IF a.style.keyed[k] = Null THEN b.style.keyed[k]
                                ELSE Spread(a.style.keyed[k], b.style.keyed[k])]]]

\* the style of one shape out of a state configuration: its own entry if the
\* style has one, the result of a style function, else the style itself
shapeStyleOf(model, st, shapeKey) ==
  IF st.kind = "object" /\ shapeKey \in StyleKeys /\ st.keyed[shapeKey] # Null
  THEN st.keyed[shapeKey]
  ELSE IF st.kind = "function" THEN StyleFn(model)
  ELSE st.flat

stateStyleOf(model, stateCfg, shapeKey) ==
  [animate |-> stateCfg.animate, style |-> shapeStyleOf(model, stateCfg.style, shapeKey)]

getStateStyle(model, stateName, shapeKey) ==
  stateStyleOf(model, deepMix(Theme(getShapeType(model), stateName), StateOption(stateName)),
               shapeKey)

\* ---------------------------------------------------- animation options
AnimateTypes == {"appear", "enter", "update", "leave"}
AnimCfg(d, e) == [duration |-> d, easing |-> e]
NoCfg == AnimCfg(Undef, Undef)
AnimFields == {"duration", "easing"}
Unset == [tag |-> "undefined", cfg |-> NoCfg]
Off == [tag |-> "false", cfg |-> NoCfg]
Nul == [tag |-> "null", cfg |-> NoCfg]
Cfg(d, e) == [tag |-> "object", cfg |-> AnimCfg(d, e)]
AllUnset == [t \in AnimateTypes |-> Unset]

BuiltIn == [t \in AnimateTypes |-> IF t = "leave" THEN NoCfg ELSE AnimCfg("450", "easeOut")]
NoBuiltIn == [t \in AnimateTypes |-> NoCfg]

\* the geometries an Element may belong to: geometry.animateOption (false,
\* true, or an object keyed by animation type) and what
\* getDefaultAnimateCfg(geometryType, coordinate, animateType) yields per type
GeometryOff == [animateOption |-> [kind |-> "false", types |-> AllUnset], defaultCfgs |-> BuiltIn]
GeometryOn == [animateOption |-> [kind |-> "true", types |-> AllUnset], defaultCfgs |-> BuiltIn]
GeometryCustom ==
  [animateOption |-> [kind |-> "object",
                      types |-> [AllUnset EXCEPT !["update"] = Off, !["appear"] = Nul,
                                                 !["leave"] = Cfg(Undef, "easeIn")]],
   defaultCfgs |-> NoBuiltIn]
Geometries == {GeometryOff, GeometryOn, GeometryCustom}

isEmpty(cfg) == \A f \in AnimFields : cfg[f] = Undef

getAnimateCfg(animate, defaults, animateType) ==
  LET defaultCfg == defaults[animateType]
      own == animate.types[animateType]
  IN  IF \/ animate.kind = "false"
         \/ (animate.kind = "true" /\ isEmpty(defaultCfg))
         \/ (animate.kind = "object" /\ own.tag = "false")
         \/ (animate.kind = "object" /\ own.tag = "null")
      THEN [isNull |-> TRUE, cfg |-> NoCfg]
      ELSE [isNull |-> FALSE,
            cfg |-> [f \in AnimFields |->
                       IF animate.kind = "object" /\ own.cfg[f] # Undef
                       THEN own.cfg[f] ELSE defaultCfg[f]]]

\* ------------------------------------------------- scene-graph primitives
\* the Element's shape as a child of its container
ShapeId == "element"
\* the Element itself and its container, as events refer to them
ElementId == "this"
ContainerId == "container"

IndexOf(seq, x) ==
  IF \E i \in 1..Len(seq) : seq[i] = x
  THEN (CHOOSE i \in 1..Len(seq) : seq[i] = x /\ \A j \in 1..(i-1) : seq[j] # x) - 1
  ELSE -1
Includes(seq, x) == \E i \in 1..Len(seq) : seq[i] = x
IsNot(x) == x # ShapeId
Without(seq) == SelectSeq(seq, IsNot)
\* splice(index, 1), index counted from 0
Splice(seq, index) == [i \in 1..(Len(seq)-1) |-> IF i <= index THEN seq[i] ELSE seq[i+1]]

\* shape.toFront() / shape.toBack(): a shape without a parent stays where it is
toFront(children) == IF Includes(children, ShapeId) THEN Append(Without(children), ShapeId) ELSE children
toBack(children) == IF Includes(children, ShapeId) THEN <<ShapeId>> \o Without(children) ELSE children
\* shape.remove(true)
remove(children) == Without(children)

\* shape.attr(attrs): sets every key the argument mentions
attr(shape, delta) ==
  [shape EXCEPT !.attrs = [k \in AttrNames |-> IF delta[k] = Keep THEN @[k] ELSE delta[k]]]
\* an attribute object (no key undefined) as the delta attr() is given
AsDelta(attrs) == [k \in AttrNames |-> IF attrs[k] = Undef THEN Keep ELSE attrs[k]]
\* shape.stopAnimate(): cancels the tweens running on the shape
stopAnimate(shape) == [shape EXCEPT !.anims = <<>>]
\* shape.animate(toAttrs, cfg): starts a tween towards toAttrs
animate(shape, toAttrs) == [shape EXCEPT !.anims = Append(@, toAttrs)]
\* doAnimate(shape, animateCfg, {toAttrs}) of the animate module
doAnimate(shape, toAttrs) == animate(shape, toAttrs)

\* getReplaceAttrs(source, target): the target's attributes, and undefined
\* for every attribute the source has and the target lacks
getReplaceAttrs(sourceShape, targetShape) ==
  [k \in AttrNames |->
     IF targetShape.attrs[k] # Undef THEN targetShape.attrs[k]
     ELSE IF sourceShape.attrs[k] # Undef THEN Undef ELSE Keep]

\* ------------------------------------------------------------ the Element
VARIABLES
  model,          \* this.model, NoModel before the first draw
  shape,          \* this.shape: Null, a leaf or a group
  states,         \* this.states, in activation order
  children,       \* the child order of this.container, the last one painted in front
  offscreen,      \* how many shapes the off-screen group holds
  visible,        \* this.visible
  shapeVisible,   \* whether the shape is shown
  destroyed,      \* this.destroyed
  leaving,        \* a leave animation is running; it removes the shape when it ends
  animateOption,  \* this.geometry.animateOption
  defaultCfgs,    \* the built-in animation defaults of this geometry and coordinate
  afterDestroy,   \* how many calls the caller made on the Element since destroy()
  quiet,          \* draw found no state on and started no tween, and only
                  \* setState was called since
  last            \* the last call: its name, arguments, trace of effects and outcome

vars == <<model, shape, states, children, offscreen, visible, shapeVisible, destroyed,
          leaving, animateOption, defaultCfgs, afterDestroy, quiet, last>>

\* `this`, as the methods below read and write it; scratch is the shape a
\* method built on the off-screen group, trace the effects of the running call
This ==
  [model |-> model, shape |-> shape, states |-> states, children |-> children,
   offscreen |-> offscreen, visible |-> visible, shapeVisible |-> shapeVisible,
   destroyed |-> destroyed, leaving |-> leaving, animateOption |-> animateOption,
   defaultCfgs |-> defaultCfgs, scratch |-> Null, trace |-> <<>>, threw |-> FALSE]

Ev(name) == [ev |-> name]
Log(e, event) == [e EXCEPT !.trace = Append(@, event)]
\* a TypeError leaves the method at once
Throw(e) == [Log(e, Ev("throw")) EXCEPT !.threw = TRUE]

NullCfg == [isNull |-> TRUE, cfg |-> NoCfg]

\* setShapeInfo tagging the shape it is given and none below it
setShapeInfo_rootOnly(node, data) ==
  [node EXCEPT !.origin = data, !.element = ElementId]

RECURSIVE setShapeInfo(_, _)
\* setShapeInfo(shape, data): tags the shape and every shape below it with the
\* model and the Element
setShapeInfo(node, data) ==
  IF node.isGroup
  THEN [node EXCEPT !.origin = data, !.element = ElementId,
                    !.children = [i \in DOMAIN @ |-> setShapeInfo(@[i], data)]]
  ELSE [node EXCEPT !.origin = data, !.element = ElementId]

\* the lookup key of a leaf: its name, or the index it was reached with
keyOf(sourceShape, index) ==
  IF Truthy(sourceShape.name) THEN sourceShape.name ELSE IndexKey(index)

\* targetShape.attr(style) when a state is given
styleTarget(targetShape, state, st) ==
  IF state # "" THEN attr(targetShape, AsDelta(st.style)) ELSE targetShape

\* the last step of syncShapeStyle on a leaf: animate towards newAttrs or set them
applyAttrs(e, sourceShape, newAttrs, stateAnimate, animateCfg) ==
  IF ~animateCfg.isNull THEN doAnimate(sourceShape, newAttrs)
  ELSE IF stateAnimate = "null" THEN attr(sourceShape, newAttrs)
  ELSE IF e.animateOption.kind # "false" THEN animate(stopAnimate(sourceShape), newAttrs)
  ELSE attr(sourceShape, newAttrs)

\* syncShapeStyle on a leaf whose target carries the state style already,
\* handing the target's attributes to the shape without the keys to reset
syncStyled_additive(e, sourceShape, target1, stateAnimate, animateCfg) ==
  [source |-> applyAttrs(e, sourceShape, AsDelta(target1.attrs), stateAnimate, animateCfg),
   target |-> target1, threw |-> FALSE]

\* syncShapeStyle on a leaf whose target carries the state style already
syncStyled(e, sourceShape, target1, stateAnimate, animateCfg) ==
  [source |-> applyAttrs(e, sourceShape, getReplaceAttrs(sourceShape, target1),
                         stateAnimate, animateCfg),
   target |-> target1, threw |-> FALSE]

\* syncShapeStyle on a leaf, st being the style of the state for this leaf
syncLeaf(e, sourceShape, targetShape, state, st, animateCfg) ==
  syncStyled(e, sourceShape, styleTarget(targetShape, state, st),
             IF state # "" THEN st.animate ELSE "undefined", animateCfg)

\* a group after its children were reconciled one by one
syncedGroup(sourceShape, targetShape, r) ==
  [source |-> [sourceShape EXCEPT !.children = [i \in DOMAIN r |-> r[i].source]],
   target |-> [targetShape EXCEPT !.children = [i \in DOMAIN r |-> r[i].target]],
   threw |-> \E i \in DOMAIN r : r[i].threw]

RECURSIVE syncShapeStyle(_, _, _, _, _, _)
syncShapeStyle(e, sourceShape, targetShape, state, animateCfg, index) ==
  IF sourceShape = Null \/ targetShape = Null
  THEN [source |-> sourceShape, target |-> targetShape, threw |-> TRUE]
  ELSE IF sourceShape.isGroup
  THEN syncedGroup(sourceShape, targetShape,
                   [i \in 1..Len(sourceShape.children) |->
                      syncShapeStyle(e, sourceShape.children[i], targetShape.children[i],
                                     state, animateCfg, index + (i - 1))])
  ELSE syncLeaf(e, sourceShape, targetShape, state,
                getStateStyle(e.model, state, keyOf(sourceShape, index)), animateCfg)

RECURSIVE LeafIndexes(_, _)
RECURSIVE LeafIndexesOf(_, _, _)
\* the index the recursion of syncShapeStyle reaches every leaf with: child i
\* of a group reached with index is reached with index + i
LeafIndexes(node, index) ==
  IF ~node.isGroup THEN <<index>> ELSE LeafIndexesOf(node.children, index, 1)
LeafIndexesOf(nodes, index, i) ==
  IF i > Len(nodes) THEN <<>>
  ELSE LeafIndexes(nodes[i], index + (i - 1)) \o LeafIndexesOf(nodes, index, i + 1)

\* this.shape and the scratch shape after one reconciliation r
synced(e, r, state) ==
  IF r.threw THEN Throw(e)
  ELSE Log([e EXCEPT !.shape = r.source, !.scratch = r.target],
           [ev |-> "sync", state |-> state])

\* one reconciliation pass of a method, on this.shape and the scratch shape
syncPass(e, state, animateCfg) ==
  synced(e, syncShapeStyle(e, e.shape, e.scratch, state, animateCfg, 0), state)

\* shapeFactory.drawShape(shapeType, model, this.getOffscreenGroup())
drawOffscreen(e) ==
  IF e.threw THEN e
  ELSE Log([e EXCEPT !.scratch = shapeFactory_drawShape(getShapeType(e.model), e.model)],
           [ev |-> "drawShape", on |-> "offscreen"])

\* only 'active' changing the paint order
IsZState_activeOnly(stateName) == stateName = "active"

\* the names that change the paint order
IsZState(stateName) == stateName = "active" \/ stateName = "selected"

\* the early return kept only for switching off
isNoChange_offOnly(index, stateStatus) == ~stateStatus /\ index = -1

\* the call asks for what already holds: the state is on and is to be switched
\* on, or is off and is to be switched off
isNoChange(index, stateStatus) == (stateStatus /\ index > -1) \/ (~stateStatus /\ index = -1)

RECURSIVE syncStates(_, _)
\* states.forEach(state => syncShapeStyle(shape, offscreenShape, state, null))
syncStates(e, i) ==
  IF e.threw \/ i > Len(e.states) THEN e
  ELSE syncStates(syncPass(e, e.states[i], NullCfg), i + 1)

\* states.push(stateName) or states.splice(index, 1)
changeStates(e, stateName, stateStatus) ==
  [e EXCEPT !.states = IF stateStatus THEN Append(@, stateName)
                       ELSE Splice(@, IndexOf(@, stateName))]

\* shape.toFront() or shape.toBack() for the names that change the paint order
changeOrder(e, stateName, stateStatus) ==
  IF ~IsZState(stateName) THEN e
  ELSE IF e.shape = Null THEN Throw(e)
  ELSE IF stateStatus THEN Log([e EXCEPT !.children = toFront(@)], Ev("toFront"))
  ELSE Log([e EXCEPT !.children = toBack(@)], Ev("toBack"))

\* one pass per active state, or one pass to the base style
applyStates(e) ==
  IF e.threw THEN e
  ELSE IF Len(e.states) > 0 THEN syncStates(e, 1)
  ELSE syncPass(e, "", NullCfg)

\* offscreenShape.remove(true)
removeOffscreen(e) ==
  IF e.threw THEN e ELSE Log([e EXCEPT !.scratch = Null], Ev("remove"))

\* container.emit('statechange', eventObject), then propagationDelegate
emitStateChange(e, event) ==
  IF e.threw THEN e
  ELSE Log(Log(e, [ev |-> "emit"] @@ event), [ev |-> "propagate"] @@ event)

\* the eventObject of a statechange
eventObject(stateName, stateStatus) ==
  [state |-> stateName, stateStatus |-> stateStatus, element |-> ElementId,
   target |-> ContainerId]

setState(e, stateName, stateStatus) ==
  IF isNoChange(IndexOf(e.states, stateName), stateStatus) THEN e
  ELSE emitStateChange(
         removeOffscreen(applyStates(drawOffscreen(
           changeOrder(changeStates(e, stateName, stateStatus), stateName, stateStatus)))),
         eventObject(stateName, stateStatus))

RECURSIVE eachState(_, _, _)
\* each(states, state => this.setState(state, false)): the length is read
\* once, the elements from the array as setState leaves it
eachState(e, i, len) ==
  IF e.threw \/ i >= len THEN e
  ELSE eachState(setState(e, IF i < Len(e.states) THEN e.states[i + 1] ELSE Undef, FALSE),
                 i + 1, len)

\* this.states = []
resetStates(e) == IF e.threw THEN e ELSE [e EXCEPT !.states = <<>>]

clearStates(e) == resetStates(eachState(e, 0, Len(e.states)))

hasState(stateName) == Includes(states, stateName)
getStates == states
getModel == model

\* newShape.set('data', ...) and newShape.set('origin', model) on what the
\* factory returned
setOrigin(e) ==
  IF e.threw THEN e
  ELSE IF e.scratch = Null THEN Throw(e)
  ELSE [e EXCEPT !.scratch.origin = e.model]

\* this.model = model, then step 1 of update: this.setShapeInfo(shape, model)
setModel(e, m) ==
  Log([e EXCEPT !.model = m, !.shape = setShapeInfo(@, m)], Ev("setShapeInfo"))

\* step 3 of update: reconcile with the 'update' animation configuration
syncUpdate(e) ==
  IF e.threw THEN e
  ELSE syncPass(e, "", getAnimateCfg(e.animateOption, e.defaultCfgs, "update"))

\* update(model)
update(e, m) ==
  IF e.shape = Null THEN e
  ELSE syncUpdate(setOrigin(drawOffscreen(setModel(e, m))))

\* hiding the shape by taking it out of the container
showShape_detaching(e, v) ==
  IF e.shape # Null
  THEN [e EXCEPT !.shapeVisible = v, !.children = IF v THEN @ ELSE remove(@)]
  ELSE e

\* show or hide the shape the Element owns
showShape(e, v) == IF e.shape # Null THEN [e EXCEPT !.shapeVisible = v] ELSE e

\* super.changeVisible(visible), then show or hide the shape
changeVisible(e, v) == showShape([e EXCEPT !.visible = v], v)

\* the shape draw keeps: named after the geometry if it has no name, with the
\* appear or enter animation started on it
entered(built, animateCfg) ==
  IF ~animateCfg.isNull /\ ~built.isGroup
  THEN doAnimate([built EXCEPT !.name = IF Truthy(@) THEN @ ELSE GeometryType],
                 AsDelta(built.attrs))
  ELSE [built EXCEPT !.name = IF Truthy(@) THEN @ ELSE GeometryType]

\* this.shape = built, a child of the container when the factory built a shape
keepShape(e, built, animateCfg, m) ==
  IF built = Null THEN [e EXCEPT !.shape = Null]
  ELSE Log([e EXCEPT !.shape = entered(setShapeInfo(built, m), animateCfg),
                     !.children = Append(Without(@), ShapeId),
                     !.shapeVisible = TRUE],
           Ev("setShapeInfo"))

\* the private drawShape(model, isUpdate): builds the shape on the container,
\* names it and starts the appear or enter animation on it
drawShape(e, m, isUpdate) ==
  keepShape(Log(e, [ev |-> "drawShape", on |-> "container"]),
            shapeFactory_drawShape(getShapeType(m), m),
            getAnimateCfg(e.animateOption, e.defaultCfgs,
                          IF isUpdate THEN "enter" ELSE "appear"),
            m)

\* if (this.visible === false) this.changeVisible(false)
hideIfInvisible(e) == IF e.visible = FALSE THEN changeVisible(e, FALSE) ELSE e

\* draw(model, isUpdate)
draw(e, m, isUpdate) == hideIfInvisible(drawShape([e EXCEPT !.model = m], m, isUpdate))

\* destroy starting the leave animation whatever the configuration
destroyShape_animated(e, animateCfg) ==
  Log([e EXCEPT !.leaving = TRUE], Ev("doAnimate"))

\* what destroy does with the shape it owns
destroyShape(e, animateCfg) ==
  IF ~animateCfg.isNull
  THEN Log([e EXCEPT !.leaving = TRUE], Ev("doAnimate"))
  ELSE Log([e EXCEPT !.children = remove(@)], Ev("remove"))

\* this.states = []; super.destroy()
endDestroy(e) == [e EXCEPT !.states = <<>>, !.destroyed = TRUE]

\* destroy()
destroy(e) ==
  endDestroy(IF e.shape # Null
             THEN destroyShape(e, getAnimateCfg(e.animateOption, e.defaultCfgs, "leave"))
             ELSE e)

\* --------------------------------------------------------------- tweens
RECURSIVE Leaves(_)
RECURSIVE LeavesOf(_, _)
\* the leaves of a shape, in depth-first order
Leaves(node) ==
  IF node = Null THEN <<>>
  ELSE IF ~node.isGroup THEN <<node>>
  ELSE LeavesOf(node.children, 1)
LeavesOf(nodes, i) ==
  IF i > Len(nodes) THEN <<>> ELSE Leaves(nodes[i]) \o LeavesOf(nodes, i + 1)

RECURSIVE Complete(_)
\* the oldest tween of every leaf reaches its end
Complete(node) ==
  IF node.isGroup
  THEN [node EXCEPT !.children = [i \in DOMAIN node.children |-> Complete(node.children[i])]]
  ELSE IF node.anims = <<>> THEN node
  ELSE [attr(node, Head(node.anims)) EXCEPT !.anims = Tail(node.anims)]

HasRoom(leaves, cap) == \A k \in 1..Len(leaves) : Len(leaves[k].anims) <= cap
Still(leaves) == \A k \in 1..Len(leaves) : leaves[k].anims = <<>>
\* no leaf has more than cap tweens queued
TweensWithin(node, cap) == HasRoom(Leaves(node), cap)
\* no tween runs on any leaf
AtRest(node) == Still(Leaves(node))
Min(a, b) == IF a < b THEN a ELSE b

Max(a, b) == IF a > b THEN a ELSE b

\* ----------------------------------------------------------------- getBBox
\* the canvas coordinates boxes are drawn from
XCoords == -1..1
YCoords == 0..1
\* what getCanvasBBox() of a shape or a label returns
BBox(minX, minY, maxX, maxY) ==
  [x |-> minX, y |-> minY, minX |-> minX, minY |-> minY, maxX |-> maxX, maxY |-> maxY,
   width |-> maxX - minX, height |-> maxY - minY]
BBoxes ==
  {BBox(x1, y1, x2, y2) : x1 \in XCoords, x2 \in XCoords, y1 \in YCoords, y2 \in YCoords}
CanvasBBoxes == {b \in BBoxes : b.width >= 0 /\ b.height >= 0}
\* the box getBBox starts from when the Element owns no shape
ZeroBBox == BBox(0, 0, 0, 0)

\* the body of labelShape.forEach keeping the low corner only
withLabel_lowOnly(bbox, labelBBox) ==
  [bbox EXCEPT !.x = Min(labelBBox.x, @), !.y = Min(labelBBox.y, @),
               !.minX = Min(labelBBox.minX, @), !.minY = Min(labelBBox.minY, @)]

\* the body of labelShape.forEach: the box grown to hold one label
withLabel(bbox, labelBBox) ==
  [bbox EXCEPT !.x = Min(labelBBox.x, @), !.y = Min(labelBBox.y, @),
               !.minX = Min(labelBBox.minX, @), !.minY = Min(labelBBox.minY, @),
               !.maxX = Max(labelBBox.maxX, @), !.maxY = Max(labelBBox.maxY, @)]

RECURSIVE withLabels(_, _, _)
\* labelShape.forEach(...)
withLabels(bbox, labelBoxes, i) ==
  IF i > Len(labelBoxes) THEN bbox
  ELSE withLabels(withLabel(bbox, labelBoxes[i]), labelBoxes, i + 1)

\* bbox.width = bbox.maxX - bbox.minX; bbox.height = bbox.maxY - bbox.minY
sized(bbox) == [bbox EXCEPT !.width = bbox.maxX - bbox.minX, !.height = bbox.maxY - bbox.minY]

\* getBBox() of an Element whose shape has the canvas box shapeBox (Null
\* without a shape) and whose labels have the boxes labelBoxes (none when
\* labelShape is not set)
getBBox(shapeBox, labelBoxes) ==
  sized(withLabels(IF shapeBox # Null THEN shapeBox ELSE ZeroBBox, labelBoxes, 1))

\* --------------------------------------------------------------- actions
NoCall == [op |-> "new", name |-> "", on |-> FALSE, threw |-> FALSE, trace |-> <<>>,
           from |-> NoModel]

\* a new Element of one of the geometries gs, in a container with two children
InitOver(gs) ==
  /\ model = NoModel
  /\ shape = Null
  /\ states = <<>>
  /\ children = <<"a", "b">>
  /\ offscreen = 0
  /\ visible = TRUE
  /\ shapeVisible = FALSE
  /\ destroyed = FALSE
  /\ leaving = FALSE
  /\ \E g \in gs : animateOption = g.animateOption /\ defaultCfgs = g.defaultCfgs
  /\ afterDestroy = 0
  /\ quiet = FALSE
  /\ last = NoCall

\* the fields of `this` after a call that leaves at most cap tweens queued on
\* a leaf, and the record of that call
Return(e, op, name, on, cap) ==
  /\ e.shape = Null \/ TweensWithin(e.shape, cap)
  /\ destroyed => afterDestroy < MaxAfterDestroy
  /\ afterDestroy' = IF destroyed THEN afterDestroy + 1 ELSE 0
  /\ model' = e.model
  /\ shape' = e.shape
  /\ states' = e.states
  /\ children' = e.children
  /\ offscreen' = Min(e.offscreen + (IF e.scratch # Null THEN 1 ELSE 0), MaxScratch)
  /\ visible' = e.visible
  /\ shapeVisible' = e.shapeVisible
  /\ destroyed' = e.destroyed
  /\ leaving' = e.leaving
  /\ quiet' = CASE op = "draw" -> e.shape # Null /\ AtRest(e.shape) /\ e.states = <<>>
                 [] op = "setState" -> quiet
                 [] OTHER -> FALSE
  /\ last' = [op |-> op, name |-> name, on |-> on, threw |-> e.threw, trace |-> e.trace,
              from |-> IF op = "update" THEN model ELSE NoModel]
  /\ UNCHANGED <<animateOption, defaultCfgs>>

Drop(seq, n) == LET keep(x) == x # n IN SelectSeq(seq, keep)

\* the caller draws an Element that owns no shape
Draw(m, isUpdate, cap) ==
  /\ shape = Null
  /\ Return(draw(This, m, isUpdate), "draw", "", isUpdate, cap)

\* the caller keeps the shape type of a drawn Element, or passes a model the
\* shape builder renders nothing for
Update(m, cap) ==
  /\ \/ shape = Null
     \/ getShapeType(m) = getShapeType(model)
     \/ shapeFactory_drawShape(getShapeType(m), m) = Null
  /\ Return(update(This, m), "update", "", FALSE, cap)

SetState(stateName, stateStatus, cap) ==
  /\ Return(setState(This, stateName, stateStatus), "setState", stateName, stateStatus, cap)

ClearStates(cap) ==
  /\ Return(clearStates(This), "clearStates", "", FALSE, cap)

Destroy(cap) ==
  /\ Return(destroy(This), "destroy", "", FALSE, cap)

ChangeVisible(v, cap) ==
  /\ Return(changeVisible(This, v), "changeVisible", "", v, cap)

\* the tweens one call started on the leaves of the attached shape end together
TweenComplete ==
  /\ shape # Null
  /\ Includes(children, ShapeId)
  /\ ~AtRest(shape)
  /\ shape' = Complete(shape)
  /\ last' = [NoCall EXCEPT !.op = "tween"]
  /\ UNCHANGED <<model, states, children, offscreen, visible, shapeVisible, destroyed,
                 leaving, animateOption, defaultCfgs, afterDestroy, quiet>>

\* the leave animation ends and removes the shape
LeaveComplete ==
  /\ leaving
  /\ leaving' = FALSE
  /\ children' = remove(children)
  /\ last' = [NoCall EXCEPT !.op = "leave"]
  /\ UNCHANGED <<model, shape, states, offscreen, visible, shapeVisible, destroyed,
                 animateOption, defaultCfgs, afterDestroy, quiet>>

\* the caller asks for the box of an Element whose shape and labels lie at
\* the given boxes; the answer depends on nothing else, so one query is
\* followed per behaviour
GetBBox(shapeBox, labelBoxes) ==
  /\ last = NoCall
  /\ last' = [op |-> "getBBox", shapeBox |-> shapeBox, labelBoxes |-> labelBoxes,
              result |-> getBBox(shapeBox, labelBoxes)]
  /\ UNCHANGED <<model, shape, states, children, offscreen, visible, shapeVisible,
                 destroyed, leaving, animateOption, defaultCfgs, afterDestroy, quiet>>

\* one resolution of the animation configuration of a type, for a geometry
\* with the animate option and the built-in defaults
GetAnimateCfg(option, defaults, animateType) ==
  /\ last = NoCall
  /\ last' = [op |-> "getAnimateCfg", animate |-> option, defaults |-> defaults,
              animateType |-> animateType,
              result |-> getAnimateCfg(option, defaults, animateType)]
  /\ UNCHANGED <<model, shape, states, children, offscreen, visible, shapeVisible,
                 destroyed, leaving, animateOption, defaultCfgs, afterDestroy, quiet>>

\* one call of getStyle
GetStyle(cfg, isStroke, isFill, sizeName) ==
  /\ last = NoCall
  /\ last' = [op |-> "getStyle", cfg |-> cfg, isStroke |-> isStroke, isFill |-> isFill,
              sizeName |-> sizeName, result |-> getStyle(cfg, isStroke, isFill, sizeName)]
  /\ UNCHANGED <<model, shape, states, children, offscreen, visible, shapeVisible,
                 destroyed, leaving, animateOption, defaultCfgs, afterDestroy, quiet>>

\* the calls a caller makes with models ms and state names ns while no leaf
\* gets more than cap tweens queued, and the ends of the animations
NextOver(ms, ns, cap) ==
  \/ \E m \in ms, isUpdate \in BOOLEAN : Draw(m, isUpdate, cap)
  \/ \E m \in ms : Update(m, cap)
  \/ \E n \in ns, on \in BOOLEAN : SetState(n, on, cap)
  \/ ClearStates(cap)
  \/ Destroy(cap)
  \/ TweenComplete
  \/ LeaveComplete

\* an Element of any geometry, toggled between a state that animates and
\* raises the shape and one that does neither
Init == InitOver(Geometries)
Next == NextOver(Models, {"active", "inactive"}, MaxTweens)
Spec == Init /\ [][Next]_vars

\* an Element of a geometry without animation, or of one that animates state
\* changes and leaving only, with all three states
InitStates == InitOver({GeometryOff, GeometryCustom})
NextStates == NextOver(Models, StateNames, MaxTweens)
SpecStates == InitStates /\ [][NextStates]_vars

\* an Element of a geometry that animates, shown and hidden by the caller, with
\* one state and room for one more tween on a leaf
InitLife == InitOver({GeometryOn, GeometryCustom})
NextLife ==
  \/ NextOver({ModelB, ModelC}, {"active"}, MaxTweens + 1)
  \/ \E v \in BOOLEAN : ChangeVisible(v, MaxTweens + 1)
SpecLife == InitLife /\ [][NextLife]_vars

\* the sequences of at most n elements of S
SeqsUpTo(S, n) == UNION {[1..k -> S] : k \in 0..n}

\* what a user may declare for one animation type, and the options built of it
UserCfgs == {Unset, Off, Nul, Cfg(Undef, Undef), Cfg(Undef, "easeIn"), Cfg("300", Undef),
             Cfg("300", "easeIn")}
AnimateOptions ==
  {GeometryOff.animateOption, GeometryOn.animateOption}
    \cup {[kind |-> "object", types |-> [AllUnset EXCEPT ![t] = own]] :
            t \in AnimateTypes, own \in UserCfgs}
\* what getDefaultAnimateCfg may yield for the types
DefaultCfgs == {BuiltIn, NoBuiltIn, [t \in AnimateTypes |-> AnimCfg("450", Undef)]}

\* the drawing instructions getStyle is called with: a colour given in a
\* style may be the empty string
StyleCfgs ==
  [style : {Sty(f, st, w) : f \in {Undef, "", "red"}, st \in {Undef, "", "red"},
                             w \in {Undef, "2"}},
   defaultStyle : {NoAttrs, Sty("white", "black", "1")},
   color : {Undef, "", "blue"},
   size : {Undef, "4"}]

\* the queries and resolutions that read the Element without changing it
InitPure == InitOver({GeometryOff})
\* the inputs of the one query a behaviour follows
Asked(S) == IF last = NoCall THEN S ELSE {}
NextPure ==
  \/ \E shapeBox \in Asked(CanvasBBoxes \cup {Null}),
        labelBoxes \in SeqsUpTo(CanvasBBoxes, MaxLabels) : GetBBox(shapeBox, labelBoxes)
  \/ \E option \in Asked(AnimateOptions), defaults \in DefaultCfgs,
        animateType \in AnimateTypes : GetAnimateCfg(option, defaults, animateType)
  \/ \E cfg \in Asked(StyleCfgs), isStroke \in BOOLEAN, isFill \in BOOLEAN,
        sizeName \in {"", "lineWidth"} : GetStyle(cfg, isStroke, isFill, sizeName)
SpecPure == InitPure /\ [][NextPure]_vars

\* ---------------------------------------------------------------- claims
IsEmit(event) == event.ev = "emit"
IsBuild(event) == event.ev = "drawShape" /\ event.on = "offscreen"
IsToBack(event) == event.ev = "toBack"
IsToFront(event) == event.ev = "toFront"
IsRemove(event) == event.ev = "remove"
Emits(trace) == SelectSeq(trace, IsEmit)
Builds(trace) == SelectSeq(trace, IsBuild)
NoDuplicates(seq) == \A i, j \in 1..Len(seq) : seq[i] = seq[j] => i = j
AnimationOff == animateOption.kind = "false"

\* the shape the factory builds from the stored model
Fresh == shapeFactory_drawShape(getShapeType(model), model)
SameLeafAttrs(la, lb) ==
  /\ Len(la) = Len(lb)
  /\ \A k \in 1..Len(la) : la[k].attrs = lb[k].attrs
SameAttrs(a, b) == SameLeafAttrs(Leaves(a), Leaves(b))

RECURSIVE LeafKeys(_, _)
RECURSIVE LeafKeysOf(_, _, _)
\* the state-style lookup key of every leaf, in depth-first order
LeafKeys(node, index) ==
  IF ~node.isGroup THEN <<keyOf(node, index)>> ELSE LeafKeysOf(node.children, index, 1)
LeafKeysOf(nodes, index, i) ==
  IF i > Len(nodes) THEN <<>>
  ELSE LeafKeys(nodes[i], index + (i - 1)) \o LeafKeysOf(nodes, index, i + 1)

RECURSIVE Overlay(_, _, _, _)
\* attrs overlaid with the styles of the states sts[i..] for the leaf of this key
Overlay(attrs, sts, key, i) ==
  IF i > Len(sts) THEN attrs
  ELSE Overlay(Spread(attrs, getStateStyle(model, sts[i], key).style), sts, key, i + 1)

\* every live leaf carries its base attributes overlaid with the active states
Composed(live, base, keys) ==
  \A k \in 1..Len(live) : live[k].attrs = Overlay(base[k].attrs, states, keys[k], 1)

\* C1: on an Element that owns no shape, update and setState complete without
\* failure and change nothing: the shape stays absent, the state list and the
\* model are kept, nothing is emitted and nothing is built off-screen.
C1_ShapelessCallsAreNoOps ==
  [][(shape = Null /\ last'.op \in {"update", "setState"})
       => /\ ~last'.threw
          /\ shape' = Null /\ states' = states /\ model' = model
          /\ Emits(last'.trace) = <<>> /\ Builds(last'.trace) = <<>>]_vars

\* C2: after update(newModel) on a drawn Element without animation, every leaf
\* carries exactly the attributes the factory builds from newModel.
C2_UpdateReplacesAttrs ==
  (last.op = "update" /\ ~last.threw /\ shape # Null /\ AnimationOff)
    => SameAttrs(shape, Fresh)

NoFill(leaves) == \A k \in 1..Len(leaves) : leaves[k].attrs["fill"] = Undef

\* an update from a model with a fill to one without left no fill on any leaf
C2_Witness ==
  /\ last.op = "update" /\ ~last.threw /\ AnimationOff
  /\ last.from = ModelA /\ model = ModelB /\ shape # Null /\ states # <<>>
  /\ NoFill(Leaves(shape))

\* C3: after a sequence of setState calls on a drawn Element, once every tween
\* has ended, each leaf carries the base attributes of the model overlaid with
\* the style of every active state in activation order.
C3_StatesComposeInOrder ==
  (quiet /\ shape # Null /\ AtRest(shape))
    => Composed(Leaves(shape), Leaves(Fresh), LeafKeys(shape, 0))

\* C4: without animation, clearStates() leaves on every leaf the attributes of
\* a fresh draw of the model.
C4_ClearStatesRestoresBase ==
  (last.op = "clearStates" /\ ~last.threw /\ shape # Null /\ Fresh # Null /\ ~destroyed
     /\ AnimationOff)
    => SameAttrs(shape, Fresh)

\* C5: clearStates() does what setState(name, false) does for each active
\* state in activation order: one statechange with stateStatus false per
\* state, one lowering to the back per 'active' or 'selected'.
C5_ClearStatesIsRepeatedSetState ==
  [][(last'.op = "clearStates" /\ ~last'.threw /\ shape # Null)
       => /\ Emits(last'.trace)
               = [i \in 1..Len(states) |->
                    [ev |-> "emit"] @@ eventObject(states[i], FALSE)]
          /\ Len(SelectSeq(last'.trace, IsToBack)) = Len(SelectSeq(states, IsZState))
          /\ states' = <<>>]_vars

\* C6: setState(name, true) on an active name and setState(name, false) on an
\* inactive one change nothing and emit nothing; after setState(name, true)
\* hasState(name) holds.
C6_RepeatedSetStateIsNoOp ==
  [][(last'.op = "setState")
       => /\ (last'.on = Includes(states, last'.name))
               => /\ states' = states /\ children' = children /\ shape' = shape
                  /\ model' = model /\ offscreen' = offscreen
                  /\ last'.trace = <<>> /\ ~last'.threw
          /\ last'.on => Includes(states', last'.name)]_vars

\* 'active' was switched on a second time on a drawn Element
C6_Witness ==
  /\ last.op = "setState" /\ last.name = "active" /\ last.on
  /\ last.trace = <<>> /\ shape # Null /\ Includes(states, "active")

\* C7: an effective setState of 'active' or 'selected' moves the shape to the
\* front (on) or to the back (off) of the container's children; any other
\* name leaves the child order as it is.
C7_PaintOrder ==
  [][(last'.op = "setState" /\ last'.on # Includes(states, last'.name))
       => IF last'.name \in {"active", "selected"} /\ Includes(children, ShapeId)
          THEN children' = IF last'.on THEN Append(Without(children), ShapeId)
                           ELSE <<ShapeId>> \o Without(children)
          ELSE children' = children]_vars

\* 'selected' was switched off and the shape is the first child
C7_Witness ==
  /\ last.op = "setState" /\ last.name = "selected" /\ ~last.on /\ ~last.threw
  /\ SelectSeq(last.trace, IsToBack) # <<>>
  /\ Len(children) = 3 /\ children[1] = ShapeId

\* C8: destroy() on an Element with a shape and no leave configuration removes
\* the shape from the container before it returns.
C8_DestroyRemovesAtOnce ==
  (last.op = "destroy" /\ shape # Null
     /\ getAnimateCfg(animateOption, defaultCfgs, "leave").isNull)
    => ~Includes(children, ShapeId)

\* destroy returned on a geometry whose animation is on but has no leave default
C8_Witness ==
  /\ last.op = "destroy" /\ shape # Null /\ animateOption.kind = "true"
  /\ SelectSeq(last.trace, IsRemove) # <<>>
  /\ ~Includes(children, ShapeId)

\* C9: after destroy() the Element holds no shape, and a later update or
\* setState is a no-op that does not touch the removed shape.
C9_DestroyDropsShape ==
  [][/\ last'.op = "destroy" => shape' = Null
     /\ (destroyed /\ last'.op \in {"update", "setState"})
          => model' = model /\ shape' = shape /\ last'.trace = <<>>]_vars

\* C10: getStates() is the sequence of names switched on and not switched off
\* since, in activation order and without duplicates, and it is empty after
\* clearStates() and after destroy().
C10_StatesAreActivationOrder ==
  [][/\ (last'.op = "setState" /\ last'.on)
          => states' = IF Includes(states, last'.name) THEN states
                       ELSE Append(states, last'.name)
     /\ (last'.op = "setState" /\ ~last'.on) => states' = Drop(states, last'.name)
     /\ last'.op \in {"clearStates", "destroy"} => states' = <<>>
     /\ last'.op \notin {"setState", "clearStates", "destroy"} => states' = states
     /\ NoDuplicates(states')]_vars
\* ------------------------------------------------------- claims, continued
IsWork(event) == event.ev \in {"toFront", "toBack", "drawShape", "sync", "remove"}

\* C11: every setState call that changes the membership of the state list
\* emits exactly one statechange carrying the name, the new status, the Element
\* and the container; it is raised on the container and then propagated, after
\* the membership update, the reconciliation passes and the removal of the
\* scratch shape.
C11_OneStateChangePerEffectiveCall ==
  [][(last'.op = "setState" /\ states' # states)
       => /\ Len(Emits(last'.trace)) = 1
          /\ Len(last'.trace) >= 2
          /\ last'.trace[Len(last'.trace) - 1]
               = [ev |-> "emit"] @@ eventObject(last'.name, last'.on)
          /\ last'.trace[Len(last'.trace)]
               = [ev |-> "propagate"] @@ eventObject(last'.name, last'.on)
          /\ \A i \in 1..(Len(last'.trace) - 2) : IsWork(last'.trace[i])
          /\ Len(SelectSeq(last'.trace, IsRemove)) = 1
          /\ Includes(states', last'.name) = last'.on]_vars

\* the boxes of the shape and the labels of the last getBBox call
BoxesOfCall == {last.shapeBox} \cup {last.labelBoxes[i] : i \in 1..Len(last.labelBoxes)}
IsLeast(v, S) == v \in S /\ \A w \in S : v <= w
IsGreatest(v, S) == v \in S /\ \A w \in S : v >= w

\* C12: getBBox() of an Element with a shape returns the union of the box of
\* the shape and the boxes of the labels: x, y, minX, minY are the least and
\* maxX, maxY the greatest over all boxes, width = maxX - minX and
\* height = maxY - minY.
C12_BBoxIsUnion ==
  (last.op = "getBBox" /\ last.shapeBox # Null)
    => /\ IsLeast(last.result.x, {b.x : b \in BoxesOfCall})
       /\ IsLeast(last.result.y, {b.y : b \in BoxesOfCall})
       /\ IsLeast(last.result.minX, {b.minX : b \in BoxesOfCall})
       /\ IsLeast(last.result.minY, {b.minY : b \in BoxesOfCall})
       /\ IsGreatest(last.result.maxX, {b.maxX : b \in BoxesOfCall})
       /\ IsGreatest(last.result.maxY, {b.maxY : b \in BoxesOfCall})
       /\ last.result.width = last.result.maxX - last.result.minX
       /\ last.result.height = last.result.maxY - last.result.minY

\* two labels, one reaching further left and one further right than the shape
C12_Witness ==
  /\ last.op = "getBBox" /\ last.shapeBox # Null /\ Len(last.labelBoxes) = 2
  /\ last.result.minX < last.shapeBox.minX /\ last.result.maxX > last.shapeBox.maxX
  /\ last.result.width > last.shapeBox.width

\* C13: changeVisible(v) sets the visibility flag and shows or hides the shape
\* the Element owns; the model, the state list, the shape with the attributes
\* of every leaf and the children of the container stay as they are, for
\* either v and with or without a shape.
C13_ChangeVisibleFrame ==
  [][(last'.op = "changeVisible")
       => /\ model' = model /\ states' = states /\ shape' = shape
          /\ children' = children /\ offscreen' = offscreen
          /\ visible' = last'.on
          /\ shapeVisible' = IF shape # Null THEN last'.on ELSE shapeVisible
          /\ ~last'.threw]_vars

\* a drawn Element with a state on was hidden and is still in the container
C13_Witness ==
  /\ last.op = "changeVisible" /\ ~last.on /\ ~visible /\ ~shapeVisible
  /\ shape # Null /\ states # <<>> /\ Includes(children, ShapeId) /\ ~destroyed

\* C14: right after update(model) or an effective setState(name, on) returns,
\* the scratch container holds no shape: whatever the call built there was
\* removed again.
C14_ScratchIsDrained ==
  (last.op \in {"update", "setState"} /\ ~last.threw) => offscreen = 0

IsStatePass(event) == event.ev = "sync" /\ event.state # ""

\* the k-th leaf, counted from 0 as the indexes are, is reached with index k
IsFlatOrder(indexes) == \A k \in 1..Len(indexes) : indexes[k] = k - 1

\* C15: in the reconciliation passes of a setState call the index that serves
\* as the lookup key of an unnamed leaf is the position of the leaf in the
\* depth-first order of the whole tree, so no two leaves share one.
C15_IndexIsFlatPosition ==
  (last.op = "setState" /\ ~last.threw /\ shape # Null
     /\ SelectSeq(last.trace, IsStatePass) # <<>>)
    => /\ IsFlatOrder(LeafIndexes(shape, 0))
       /\ NoDuplicates(LeafIndexes(shape, 0))

\* what the user declared for the type of the last resolution
OwnOfCall == last.animate.types[last.animateType]
\* the user switched the type off
SwitchedOff(own) == own.tag \in {"false", "null"}
\* the built-in default overlaid with the user's fields
Merged(defaultCfg, own) ==
  [f \in AnimFields |-> IF own.cfg[f] # Undef THEN own.cfg[f] ELSE defaultCfg[f]]

\* C16: the resolution for a type yields no animation when the option of the
\* geometry is off, when it is on and neither the user declared anything for
\* this type nor a built-in default exists, and when the user switched this
\* type off; in every other case it yields the built-in default overlaid with
\* what the user declared, field by field.
C16_AnimateCfgResolution ==
  (last.op = "getAnimateCfg")
    => IF \/ last.animate.kind = "false"
          \/ OwnOfCall.tag = "undefined" /\ isEmpty(last.defaults[last.animateType])
          \/ SwitchedOff(OwnOfCall)
       THEN last.result.isNull
       ELSE /\ ~last.result.isNull
            /\ last.result.cfg = Merged(last.defaults[last.animateType], OwnOfCall)

AtMostOne(leaves) == \A k \in 1..Len(leaves) : Len(leaves[k].anims) <= 1

\* C17: whatever the interleaving of update and setState calls with the
\* progress of tweens, every leaf of the live shape has at most one tween in
\* flight: a tween started on a leaf stops the one running there.
C17_OneTweenPerLeaf ==
  (shape # Null /\ ~destroyed) => AtMostOne(Leaves(shape))

RECURSIVE Annotated(_, _)
\* the node and every node below it carry the model and the Element
Annotated(node, m) ==
  /\ node.origin = m /\ node.element = ElementId
  /\ node.isGroup => \A i \in DOMAIN node.children : Annotated(node.children[i], m)

IsInfo(event) == event.ev = "setShapeInfo"

\* C18: after a draw or an update that leaves the Element with a shape, the
\* shape and every shape below it carry origin = the stored model and
\* element = this Element; update tags the live shape before it builds the
\* scratch shape and before it touches an attribute.
C18_TreeIsAnnotated ==
  (last.op \in {"draw", "update"} /\ shape # Null)
    => /\ Annotated(shape, model)
       /\ last.op = "update"
            => /\ last.trace # <<>> /\ IsInfo(Head(last.trace))
               /\ Len(SelectSeq(last.trace, IsInfo)) = 1

\* a box was updated to another model and all its five shapes carry it
C18_Witness ==
  /\ last.op = "update" /\ ~last.threw /\ shape # Null /\ shape.isGroup
  /\ last.from # model /\ Annotated(shape, model) /\ Len(Leaves(shape)) = 3

\* C19: when the factory returns nothing for the scratch build of update or
\* setState on an Element that owns a shape, the call completes without
\* failure and is applied as a whole or not at all: afterwards the stored
\* model, the tags of the live shape, the state list and the attributes of the
\* leaves belong to one model and one set of states.
C19_EmptyScratchIsHandled ==
  [][(last'.op \in {"update", "setState"} /\ shape # Null
        /\ shapeFactory_drawShape(getShapeType(model'), model') = Null)
       => /\ ~last'.threw
          /\ \/ model' = model /\ states' = states /\ shape' = shape
             \/ Annotated(shape', model') /\ Includes(states', last'.name) = last'.on]_vars

\* the value the claim gives an attribute: the user style over the default
\* style, or the shorthand where it applies and the user style has no such key
Shorthanded(cfg, key, applies, value) ==
  IF applies /\ cfg.style[key] = Undef THEN value
  ELSE Spread(cfg.defaultStyle, cfg.style)[key]

\* C20: getStyle returns the default style overlaid by the user style; colour
\* becomes stroke (isStroke) and fill (isFill), and size the attribute named
\* sizeName, only where the user style does not set that attribute: what the
\* user style sets is never overridden by a shorthand.
C20_StyleWinsOverShorthand ==
  (last.op = "getStyle")
    => /\ last.result["stroke"]
            = Shorthanded(last.cfg, "stroke", Truthy(last.cfg.color) /\ last.isStroke,
                          last.cfg.color)
       /\ last.result["fill"]
            = Shorthanded(last.cfg, "fill", Truthy(last.cfg.color) /\ last.isFill,
                          last.cfg.color)
       /\ last.result["lineWidth"]
            = Shorthanded(last.cfg, "lineWidth",
                          last.sizeName = "lineWidth" /\ ~isNil(last.cfg.size), last.cfg.size)
       /\ \A k \in AttrNames : last.cfg.style[k] # Undef => last.result[k] = last.cfg.style[k]

====
